---- MODULE Spec2Model ----
(***************************************************************************)
(* The Markowitz queue of filter/markowitz.c: an indexed binary min-heap   *)
(* of (column, cost) pairs over a sparse matrix, with the reverse index A, *)
(* the three cost policies and the column weight tracker.                  *)
(***************************************************************************)
EXTENDS Integers, Sequences, FiniteSets, TLC

\* ------------------------------------------------------------------ bounds
NCols == 4            \* number of matrix columns
MaxOps == 2           \* driver operations (entry added, entry removed, column removed) in one run
MaxBatch == 2         \* length of the column list handed to MkzUpdateN

Cols == 0 .. (NCols - 1)
NRows == NCols
Rows == 0 .. (NRows - 1)
QSlots == 0 .. (2 * NCols + 1)

\* ------------------------------------------------------- program constants
\* the "infinite" slot of a dead column (markowitz.h), larger than every slot
MKZ_INF == 2147483647

VARIABLES
    gmat,       \* the filter_matrix_t: mkztype, wmstmax, rows, R, wt, MKZQ, MKZA
    aborted,    \* TRUE once an ASSERT has stopped the program
    nops,       \* driver operations done so far
    last,       \* the last operation called
    diag,       \* what the run has shown: the largest cost seen at slot 1, the diagnostic printed, the queue freed
    par         \* the two heap repairs run side by side: their position and local variables

vars == <<gmat, aborted, nops, last, diag, par>>

\* nothing printed yet, the queue not freed; the largest cost seen at slot 1
\* is the one there now
NoDiag(mat) == [rootmax |-> mat.MKZQ[3], out |-> <<>>, freed |-> FALSE]

\* --------------------------------------------------------------- the heap
\* line 33: r-th component of Q[i]
MkzGet(Q, i, r) == Q[2 * i + r]

\* line 34
MkzSet(Q, i, r, val) == [Q EXCEPT ![2 * i + r] = val]

MkzIsAlive(A, dj) == A[dj] # MKZ_INF

\* mutant: the entry is copied but the reverse index is not
MkzAssign_noIndex(Q, A, k1, k2) ==
    LET dj == MkzGet(Q, k2, 0)
        Q1 == MkzSet(Q, k1, 0, dj)
        Q2 == MkzSet(Q1, k1, 1, MkzGet(Q1, k2, 1))
    IN  [Q |-> Q2, A |-> A]

\* (Q, A)[k1] <- (Q, A)[k2]
MkzAssign(Q, A, k1, k2) ==
    LET dj == MkzGet(Q, k2, 0)
        Q1 == MkzSet(Q, k1, 0, dj)
        Q2 == MkzSet(Q1, k1, 1, MkzGet(Q1, k2, 1))
    IN  [Q |-> Q2, A |-> [A EXCEPT ![dj] = k1]]

\* mutant: the climb stops below the root
RECURSIVE MkzUpQueueLoop_belowRoot(_, _, _, _)
MkzUpQueueLoop_belowRoot(Q, A, k, count) ==
    IF k > 2 /\ MkzGet(Q, k \div 2, 1) >= count
    THEN LET s == MkzAssign(Q, A, k, k \div 2)
         IN  MkzUpQueueLoop_belowRoot(s.Q, s.A, k \div 2, count)
    ELSE [Q |-> Q, A |-> A, k |-> k]

\* mutant: the climb stops under a father of the same cost
RECURSIVE MkzUpQueueLoop_strict(_, _, _, _)
MkzUpQueueLoop_strict(Q, A, k, count) ==
    IF (k > 1) /\ (MkzGet(Q, k \div 2, 1) > count)
    THEN LET s == MkzAssign(Q, A, k, k \div 2)
         IN  MkzUpQueueLoop_strict(s.Q, s.A, k \div 2, count)
    ELSE [Q |-> Q, A |-> A, k |-> k]

\* the while loop of MkzUpQueue: the father replaces the son while the
\* father's cost is >= count
RECURSIVE MkzUpQueueLoop(_, _, _, _)
MkzUpQueueLoop(Q, A, k, count) ==
    IF (k > 1) /\ (MkzGet(Q, k \div 2, 1) >= count)
    THEN LET s == MkzAssign(Q, A, k, k \div 2)
         IN  MkzUpQueueLoop(s.Q, s.A, k \div 2, count)
    ELSE [Q |-> Q, A |-> A, k |-> k]

MkzUpQueue(Q, A, k) ==
    LET dj == MkzGet(Q, k, 0)
        count == MkzGet(Q, k, 1)
        s == MkzUpQueueLoop(Q, A, k, count)
        Q1 == MkzSet(s.Q, s.k, 0, dj)
        Q2 == MkzSet(Q1, s.k, 1, count)
    IN  [Q |-> Q2, A |-> [s.A EXCEPT ![dj] = s.k]]

\* mutant: the comparison of the two sons is reversed
MkzSmallestSon_larger(Q, k) ==
    LET j == 2 * k
    IN  IF j < Q[0] /\ MkzGet(Q, j, 1) < MkzGet(Q, j + 1, 1) THEN j + 1 ELSE j

\* lines 105-110: the son of k with the smallest count (the left one on a tie)
MkzSmallestSon(Q, k) ==
    LET j == 2 * k
    IN  IF j < Q[0] /\ MkzGet(Q, j, 1) > MkzGet(Q, j + 1, 1) THEN j + 1 ELSE j

\* mutant: the loop runs one slot past the end of the queue
RECURSIVE MkzDownQueueLoop_pastEnd(_, _, _, _)
MkzDownQueueLoop_pastEnd(Q, A, k, count) ==
    IF 2 * k <= Q[0] + 1
    THEN LET j == MkzSmallestSon(Q, k)
         IN  IF count <= MkzGet(Q, j, 1)
             THEN [Q |-> Q, A |-> A, k |-> k]
             ELSE LET s == MkzAssign(Q, A, k, j)
                  IN  MkzDownQueueLoop_pastEnd(s.Q, s.A, j, count)
    ELSE [Q |-> Q, A |-> A, k |-> k]

\* the while loop of MkzDownQueue
RECURSIVE MkzDownQueueLoop(_, _, _, _)
MkzDownQueueLoop(Q, A, k, count) ==
    IF 2 * k <= Q[0]
    THEN LET j == MkzSmallestSon(Q, k)
         IN  IF count <= MkzGet(Q, j, 1)
             THEN [Q |-> Q, A |-> A, k |-> k]
             ELSE LET s == MkzAssign(Q, A, k, j)
                  IN  MkzDownQueueLoop(s.Q, s.A, j, count)
    ELSE [Q |-> Q, A |-> A, k |-> k]

MkzDownQueue(Q, A, k) ==
    LET dj == MkzGet(Q, k, 0)
        count == MkzGet(Q, k, 1)
        s == MkzDownQueueLoop(Q, A, k, count)
        Q1 == MkzSet(s.Q, s.k, 0, dj)
        Q2 == MkzSet(Q1, s.k, 1, count)
    IN  [Q |-> Q2, A |-> [s.A EXCEPT ![dj] = s.k]]

\* mutant: the new node is never moved up
MkzMoveUpOrDown_onlyDown(Q, A, k) == MkzDownQueue(Q, A, k)

\* mutant: a column at the root is left where it is
MkzMoveUpOrDown_rootStays(Q, A, k) ==
    IF k = 1
    THEN [Q |-> Q, A |-> A]
    ELSE IF MkzGet(Q, k \div 2, 1) > MkzGet(Q, k, 1)
         THEN MkzUpQueue(Q, A, k)
         ELSE MkzDownQueue(Q, A, k)

MkzMoveUpOrDown(Q, A, k) ==
    IF k = 1
    THEN MkzDownQueue(Q, A, k)
    ELSE IF MkzGet(Q, k \div 2, 1) > MkzGet(Q, k, 1)
         THEN MkzUpQueue(Q, A, k)
         ELSE MkzDownQueue(Q, A, k)

\* lines 160-175: the loop of MkzIsHeap from slot k on; 0 at the first father
\* found dearer than a son looked at, 1 at the end of the loop
RECURSIVE MkzIsHeapLoop(_, _)
MkzIsHeapLoop(Q, k) ==
    IF k <= Q[0] \div 2
    THEN IF MkzGet(Q, k, 1) > MkzGet(Q, 2 * k, 1)
         THEN 0
         ELSE IF k < Q[0] \div 2 /\ MkzGet(Q, k, 1) > MkzGet(Q, 2 * k + 1, 1)
              THEN 0
              ELSE MkzIsHeapLoop(Q, k + 1)
    ELSE 1

\* the debug checker (compiled with MKZ_DEBUG >= 1)
MkzIsHeap(Q) == MkzIsHeapLoop(Q, 1)

\* ------------------------------------------------------------- the matrix
\* matLengthRow (merge_replay_matrix.h): the number of entries of row i
matLengthRow(mat, i) == Cardinality(mat.rows[i])

\* increment and decrement of a column weight (sparse.h). The weights of the
\* model are row counts, 0..NRows: on them incrS adds one. What incrS does at
\* the top of the weight type, or to a negative weight, is decided in sparse.h
\* and is not modelled.
incrS(w) == w + 1

decrS(w) == IF w > 0 THEN w - 1 ELSE 0

\* weightSum (merge_replay_matrix.c): the weight of the sum of rows i1 and i2
weightSum(mat, i1, i2, j) ==
    Cardinality((mat.rows[i1] \cup mat.rows[i2]) \ (mat.rows[i1] \cap mat.rows[i2]))

\* Prim's algorithm on the complete graph over ind[1..m] whose edge (a, b)
\* weighs weightSum(ind[a], ind[b]); returns the weight of the tree
RECURSIVE minimalSpanningTree(_, _, _, _, _, _)
minimalSpanningTree(mat, m, ind, j, inTree, w) ==
    IF inTree = 1 .. m
    THEN w
    ELSE LET edges == inTree \X ((1 .. m) \ inTree)
             wgt(e) == weightSum(mat, ind[e[1]], ind[e[2]], j)
             best == CHOOSE e \in edges : \A f \in edges : wgt(e) <= wgt(f)
         IN  minimalSpanningTree(mat, m, ind, j, inTree \cup {best[2]}, w + wgt(best))

RECURSIVE SumLengths(_, _, _)
SumLengths(mat, ind, k) ==
    IF k = 0 THEN 0 ELSE matLengthRow(mat, ind[k]) + SumLengths(mat, ind, k - 1)

\* minCostUsingMST (mst.c): the cost of the cheapest sequence of row
\* additions that merges the m rows ind[1..m], less the rows' own lengths
minCostUsingMST(mat, m, ind, j) ==
    minimalSpanningTree(mat, m, ind, j, {1}, 0) - SumLengths(mat, ind, m)

\* ------------------------------------------------------ the cost policies
Cavallar(mat, j) == mat.wt[j]

\* mutant: the heaviest row is kept instead of the lightest
RECURSIVE pureMkzLoop_max(_, _, _, _)
pureMkzLoop_max(mat, j, k, w0) ==
    IF k <= Len(mat.R[j])
    THEN LET i == mat.R[j][k]
         IN  pureMkzLoop_max(mat, j, k + 1,
                             IF matLengthRow(mat, i) > w0 THEN matLengthRow(mat, i) ELSE w0)
    ELSE w0

\* lines 217-222: the minimum of w0 and the lengths of rows R[j][k..R[j][0]]
RECURSIVE pureMkzLoop(_, _, _, _)
pureMkzLoop(mat, j, k, w0) ==
    IF k <= Len(mat.R[j])
    THEN LET i == mat.R[j][k]
         IN  pureMkzLoop(mat, j, k + 1,
                         IF matLengthRow(mat, i) < w0 THEN matLengthRow(mat, i) ELSE w0)
    ELSE w0

\* 32-bit arithmetic on values kept as signed 32-bit integers, worked out in
\* 16-bit halves so that no intermediate value leaves the 32 bits
Lo16(x) == x % 65536
Hi16(x) == (x \div 65536) % 65536

\* the low and the high half of the product of two 16-bit halves
MulLo16(x, y) == ((((x \div 256) * y) % 256) * 256 + (x % 256) * y) % 65536
MulHi16(x, y) ==
    ((x \div 256) * y) \div 256 + ((((x \div 256) * y) % 256) * 256 + (x % 256) * y) \div 65536

\* the int whose bits are the halves hi and lo
ToInt32(hi, lo) == IF hi >= 32768 THEN (hi - 65536) * 65536 + lo ELSE hi * 65536 + lo

\* a * b and a - 2, reduced modulo 2^32; the product of two values of 16
\* bits fits in the 32 bits and is taken as it is
MulInt32Halves(a, b) ==
    ToInt32((MulHi16(Lo16(a), Lo16(b)) + MulLo16(Hi16(a), Lo16(b)) + MulLo16(Lo16(a), Hi16(b))) % 65536,
            MulLo16(Lo16(a), Lo16(b)))
MulInt32(a, b) ==
    IF a >= -32768 /\ a <= 32767 /\ b >= -32768 /\ b <= 32767
    THEN a * b
    ELSE MulInt32Halves(a, b)
SubTwoInt32(a) == IF a >= -2147483646 THEN a - 2 ELSE (a + 2147483647) + 2147483647

\* line 223: (w0 - 2) * (w - 2) - 2 is computed in index_t, an unsigned type,
\* and returned as int: the low 32 bits of the value
pureMkzReturn(w0, w) == SubTwoInt32(MulInt32(w0 - 2, w - 2))

pureMkz(mat, j) ==
    LET w == mat.wt[j]
    IN  IF w <= 1 THEN -4
        ELSE IF w = 2 THEN -2
        ELSE LET i == mat.R[j][1]
                 w0 == pureMkzLoop(mat, j, 2, matLengthRow(mat, i))
             IN  pureMkzReturn(w0, w)

\* mutant: the MST range reaches one weight too far
lightColAndMkz_oneMore(mat, j) ==
    LET wj == mat.wt[j]
        ind == mat.R[j]
    IN  IF wj <= 1 THEN -4
        ELSE IF wj <= mat.wmstmax + 1
        THEN IF wj = 2
             THEN weightSum(mat, ind[1], ind[2], j)
                  - matLengthRow(mat, ind[1]) - matLengthRow(mat, ind[2])
             ELSE minCostUsingMST(mat, wj, ind, j)
        ELSE pureMkz(mat, j)

lightColAndMkz(mat, j) ==
    LET wj == mat.wt[j]
        ind == mat.R[j]
    IN  IF wj <= 1 THEN -4
        ELSE IF wj <= mat.wmstmax
        THEN IF wj = 2
             THEN weightSum(mat, ind[1], ind[2], j)
                  - matLengthRow(mat, ind[1]) - matLengthRow(mat, ind[2])
             ELSE minCostUsingMST(mat, wj, ind, j)
        ELSE pureMkz(mat, j)

\* mutant: the cost is handed on as computed, negative or not
MkzCount_noClamp(mat, j) ==
    CASE mat.mkztype = "MKZTYPE_LIGHT" -> lightColAndMkz(mat, j)
      [] mat.mkztype = "MKZTYPE_PURE" -> pureMkz(mat, j)
      [] OTHER -> Cavallar(mat, j)

\* mutant: the default case falls to the pure policy
MkzCount_defaultPure(mat, j) ==
    LET cost == CASE mat.mkztype = "MKZTYPE_LIGHT" -> lightColAndMkz(mat, j)
                  [] OTHER -> pureMkz(mat, j)
    IN  IF cost < 0 THEN 0 ELSE cost

\* lines 268-270: ensure cost >= 0
MkzNonNegative(cost) == IF cost < 0 THEN 0 ELSE cost

MkzCount(mat, j) ==
    LET cost == CASE mat.mkztype = "MKZTYPE_LIGHT" -> lightColAndMkz(mat, j)
                  [] mat.mkztype = "MKZTYPE_PURE" -> pureMkz(mat, j)
                  [] OTHER -> Cavallar(mat, j)
    IN  MkzNonNegative(cost)

\* ------------------------------------------------- the public operations
\* mutant: the new weight is written into the column's slot as its cost
MkzIncrCol_storesCost(mat, j) ==
    LET ind == incrS(mat.wt[j])
        m1 == [mat EXCEPT !.wt[j] = ind]
    IN  [mat |-> IF MkzIsAlive(mat.MKZA, j)
                 THEN [m1 EXCEPT !.MKZQ = MkzSet(@, mat.MKZA[j], 1, ind)]
                 ELSE m1,
         ret |-> ind]

\* returns the new weight (ret) and the matrix
MkzIncrCol(mat, j) ==
    LET ind == incrS(mat.wt[j])
    IN  [mat |-> [mat EXCEPT !.wt[j] = ind], ret |-> ind]

\* mutant: the weight is lowered twice
MkzDecreaseColWeight_twice(mat, j) == [mat EXCEPT !.wt[j] = decrS(decrS(mat.wt[j]))]

MkzDecreaseColWeight(mat, j) == [mat EXCEPT !.wt[j] = decrS(mat.wt[j])]

\* mutant: no assertion, a slot past the end is brought back to the last slot
MkzUpdate_noAssert(mat, j) ==
    LET adr == IF mat.MKZA[j] > mat.MKZQ[0] THEN mat.MKZQ[0] ELSE mat.MKZA[j]
        mkz == MkzCount(mat, j)
        Q1 == MkzSet(mat.MKZQ, adr, 1, mkz)
        s == MkzMoveUpOrDown(Q1, mat.MKZA, adr)
    IN  [mat |-> [mat EXCEPT !.MKZQ = s.Q, !.MKZA = s.A], aborted |-> FALSE]

\* mutant: the new cost is not written into the slot
MkzUpdate_noStore(mat, j) ==
    LET adr == mat.MKZA[j]
    IN  IF adr = MKZ_INF
        THEN [mat |-> mat, aborted |-> TRUE]
        ELSE LET s == MkzMoveUpOrDown(mat.MKZQ, mat.MKZA, adr)
             IN  [mat |-> [mat EXCEPT !.MKZQ = s.Q, !.MKZA = s.A], aborted |-> FALSE]

\* mutant: the slot is moved before the new cost is written
MkzUpdate_moveFirst(mat, j) ==
    LET adr == mat.MKZA[j]
    IN  IF adr = MKZ_INF
        THEN [mat |-> mat, aborted |-> TRUE]
        ELSE LET mkz == MkzCount(mat, j)
                 s == MkzMoveUpOrDown(mat.MKZQ, mat.MKZA, adr)
                 Q1 == MkzSet(s.Q, adr, 1, mkz)
             IN  [mat |-> [mat EXCEPT !.MKZQ = Q1, !.MKZA = s.A], aborted |-> FALSE]

\* aborted: the ASSERT of line 308 failed, nothing was written
MkzUpdate(mat, j) ==
    LET adr == mat.MKZA[j]
    IN  IF adr = MKZ_INF
        THEN [mat |-> mat, aborted |-> TRUE]
        ELSE LET mkz == MkzCount(mat, j)
                 Q1 == MkzSet(mat.MKZQ, adr, 1, mkz)
                 s == MkzMoveUpOrDown(Q1, mat.MKZA, adr)
             IN  [mat |-> [mat EXCEPT !.MKZQ = s.Q, !.MKZA = s.A], aborted |-> FALSE]

\* mutant: the last element of the list is left out
RECURSIVE MkzUpdateNLoop_skipLast(_, _, _, _)
MkzUpdateNLoop_skipLast(mat, j, n, i) ==
    IF i < n - 1
    THEN LET r == MkzUpdate(mat, j[i + 1])
         IN  IF r.aborted THEN r ELSE MkzUpdateNLoop_skipLast(r.mat, j, n, i + 1)
    ELSE [mat |-> mat, aborted |-> FALSE]

\* lines 346-347, from index i on (j is 1-based here, j[i + 1] is the code's j[i])
RECURSIVE MkzUpdateNLoop(_, _, _, _)
MkzUpdateNLoop(mat, j, n, i) ==
    IF i < n
    THEN LET r == MkzUpdate(mat, j[i + 1])
         IN  IF r.aborted THEN r ELSE MkzUpdateNLoop(r.mat, j, n, i + 1)
    ELSE [mat |-> mat, aborted |-> FALSE]

MkzUpdateN(mat, j, n) == MkzUpdateNLoop(mat, j, n, 0)

\* lines 319-340, the parallel version kept under #if 0: all the costs are
\* computed first (lines 330-331), then the heap is repaired column by
\* column in the order of the list (lines 333-338)
RECURSIVE MkzUpdateNRepair(_, _, _, _, _)
MkzUpdateNRepair(mat, j, mkz, n, i) ==
    IF i < n
    THEN LET adr == mat.MKZA[j[i + 1]]
             Q1 == MkzSet(mat.MKZQ, adr, 1, mkz[i + 1])
             s == MkzMoveUpOrDown(Q1, mat.MKZA, adr)
         IN  MkzUpdateNRepair([mat EXCEPT !.MKZQ = s.Q, !.MKZA = s.A], j, mkz, n, i + 1)
    ELSE mat

MkzUpdateNParallel(mat, j, n) ==
    LET mkz == [i \in 1 .. n |-> MkzCount(mat, j[i])]
    IN  MkzUpdateNRepair(mat, j, mkz, n, 0)

\* lines 274-286: what MkzClear prints when verbose is set, the cost held by
\* slot Q[0]; after it Q and A are freed
MkzClear(mat, verbose) ==
    IF verbose THEN <<MkzGet(mat.MKZQ, mat.MKZQ[0], 1)>> ELSE <<>>

\* ------------------------------------------------------------ the driver
\* the merge driver's side of the protocol: building the queue, adding and
\* removing matrix entries, removing a column from the queue

\* insert i into the increasing list of rows r
InsertRow(r, i) ==
    LET lo == SelectSeq(r, LAMBDA x : x < i)
        hi == SelectSeq(r, LAMBDA x : x > i)
    IN  lo \o <<i>> \o hi

DeleteRow(r, i) == SelectSeq(r, LAMBDA x : x # i)

\* row i gains an entry in column j
AddEntry(mat, i, j) ==
    LET m1 == MkzIncrCol(mat, j).mat
    IN  [m1 EXCEPT !.rows[i] = @ \cup {j}, !.R[j] = InsertRow(@, i)]

\* row i loses its entry in column j
RemoveEntry(mat, i, j) ==
    LET m1 == MkzDecreaseColWeight(mat, j)
    IN  [m1 EXCEPT !.rows[i] = @ \ {j}, !.R[j] = DeleteRow(@, i)]

\* append column j with its cost and sift it up
MkzInsert(mat, j) ==
    LET sz == mat.MKZQ[0] + 1
        Q0 == [mat.MKZQ EXCEPT ![0] = sz]
        Q1 == MkzSet(Q0, sz, 0, j)
        Q2 == MkzSet(Q1, sz, 1, MkzCount(mat, j))
        s == MkzUpQueue(Q2, [mat.MKZA EXCEPT ![j] = sz], sz)
    IN  [mat EXCEPT !.MKZQ = s.Q, !.MKZA = s.A]

\* insert the columns j, j+1, ... up to the last one, in this order
RECURSIVE MkzInitLoop(_, _)
MkzInitLoop(mat, j) ==
    IF j < Cardinality(DOMAIN mat.MKZA) THEN MkzInitLoop(MkzInsert(mat, j), j + 1) ELSE mat

MkzInit(mat) ==
    MkzInitLoop([mat EXCEPT !.MKZQ = [x \in QSlots |-> 0],
                            !.MKZA = [c \in Cols |-> MKZ_INF]], 0)

\* mark column j dead: the last slot takes its place and the queue shrinks
MkzRemoveJ(mat, j) ==
    LET k == mat.MKZA[j]
        n == mat.MKZQ[0]
        A1 == [mat.MKZA EXCEPT ![j] = MKZ_INF]
    IN  IF k = n
        THEN [mat EXCEPT !.MKZQ[0] = n - 1, !.MKZA = A1]
        ELSE LET s == MkzAssign(mat.MKZQ, A1, k, n)
                 t == MkzMoveUpOrDown([s.Q EXCEPT ![0] = n - 1], s.A, k)
             IN  [mat EXCEPT !.MKZQ = t.Q, !.MKZA = t.A]

\* ---------------------------------------------------------- initial states
RowsOfColumn(rows, j) ==
    LET S == {i \in DOMAIN rows : j \in rows[i]}
        RECURSIVE Up(_)
        Up(i) == IF i >= Cardinality(DOMAIN rows) THEN <<>>
                 ELSE (IF i \in S THEN <<i>> ELSE <<>>) \o Up(i + 1)
    IN  Up(0)

\* the full matrix
FullRows == [i \in Rows |-> Cols]

\* the staircase: row i holds the columns 0..i, column j has weight NRows - j
StairRows == [i \in Rows |-> {j \in Cols : j <= i}]

\* the band: row i holds the columns i and i+1 (cyclically), every column
\* has weight 2
BandRows == [i \in Rows |-> {i, (i + 1) % NCols}]

\* wmstmax is 3 where the light policy is selected
InitMatrices ==
    { <<BandRows, <<"MKZTYPE_CAVALLAR", 3>> >>,
      <<BandRows, <<"MKZTYPE_PURE", 3>> >>,
      <<FullRows, <<"MKZTYPE_PURE", 3>> >>,
      <<StairRows, <<"MKZTYPE_LIGHT", 3>> >> }

\* the matrix with the given rows over the columns cols, its queue empty
MatOf(rows, pol, cols) ==
    [ mkztype |-> pol[1],
      wmstmax |-> pol[2],
      rows |-> rows,
      R |-> [j \in cols |-> RowsOfColumn(rows, j)],
      wt |-> [j \in cols |-> Cardinality({i \in DOMAIN rows : j \in rows[i]})],
      MKZQ |-> [x \in 0 .. (2 * Cardinality(cols) + 1) |-> 0],
      MKZA |-> [c \in cols |-> MKZ_INF] ]

Init ==
    /\ \E m \in InitMatrices : gmat = MkzInit(MatOf(m[1], m[2], Cols))
    /\ aborted = FALSE
    /\ nops = 0
    /\ last = [op |-> "MkzInit", dir |-> "none"]
    /\ diag = NoDiag(gmat)
    /\ par = <<>>

\* ------------------------------------------------------------------ actions
\* which way the updated column went: from slot k0 to slot k1
Direction(k0, k1) ==
    IF k0 = MKZ_INF THEN "none"
    ELSE IF k1 < k0 THEN "up"
    ELSE IF k1 > k0 THEN "down"
    ELSE "stay"

update(j) ==
    /\ ~aborted
    /\ \E r \in {MkzUpdate(gmat, j)} :
           /\ gmat' = r.mat
           /\ aborted' = r.aborted
           /\ last' = [op |-> "MkzUpdate", dir |-> Direction(gmat.MKZA[j], r.mat.MKZA[j])]
    /\ UNCHANGED nops
    /\ UNCHANGED <<diag, par>>

updateN(js) ==
    /\ ~aborted
    /\ \E r \in {MkzUpdateN(gmat, js, Len(js))} :
           gmat' = r.mat /\ aborted' = r.aborted
    /\ last' = [op |-> "MkzUpdateN", dir |-> "none"]
    /\ UNCHANGED nops
    /\ UNCHANGED <<diag, par>>

\* the driver rewrites row 0: it adds or removes one entry of it at a time
addEntry(i, j) ==
    /\ ~aborted
    /\ i = 0
    /\ nops < MaxOps
    /\ j \notin gmat.rows[i]
    /\ gmat' = AddEntry(gmat, i, j)
    /\ nops' = nops + 1
    /\ last' = [op |-> "MkzIncrCol", dir |-> "none"]
    /\ UNCHANGED aborted
    /\ UNCHANGED <<diag, par>>

removeEntry(i, j) ==
    /\ ~aborted
    /\ i = 0
    /\ nops < MaxOps
    /\ j \in gmat.rows[i]
    /\ gmat' = RemoveEntry(gmat, i, j)
    /\ nops' = nops + 1
    /\ last' = [op |-> "MkzDecreaseColWeight", dir |-> "none"]
    /\ UNCHANGED aborted
    /\ UNCHANGED <<diag, par>>

removeColumn(j) ==
    /\ ~aborted
    /\ MkzIsAlive(gmat.MKZA, j)
    /\ nops < MaxOps
    /\ gmat' = MkzRemoveJ(gmat, j)
    /\ last' = [op |-> "MkzRemoveJ", dir |-> "none"]
    /\ nops' = nops + 1
    /\ UNCHANGED <<aborted>>
    /\ UNCHANGED <<diag, par>>

ColumnsOfRow(rows, i) ==
    LET RECURSIVE Up(_)
        Up(j) == IF j >= NCols THEN <<>>
                 ELSE (IF j \in rows[i] THEN <<j>> ELSE <<>>) \o Up(j + 1)
    IN  Up(0)

Batch(rows, i) ==
    LET cs == ColumnsOfRow(rows, i)
    IN  SubSeq(cs, 1, IF Len(cs) < MaxBatch THEN Len(cs) ELSE MaxBatch)

Next ==
    \/ \E j \in Cols : update(j)
    \/ updateN(Batch(gmat.rows, 0))
    \/ \E i \in Rows, j \in Cols : addEntry(i, j)
    \/ \E i \in Rows, j \in Cols : removeEntry(i, j)
    \/ \E j \in Cols : removeColumn(j)

Spec == Init /\ [][Next]_vars

\* the same runs, under the name the claims about the result of one update
\* (C4, C5) are checked by
SpecCost == Init /\ [][Next]_vars

\* ----------------------------------------------------- the weight tracker
\* The driver and the weight tracker alone: entries of row 0 come and go,
\* single columns are updated, no column leaves the queue.
NextTracker ==
    \/ \E j \in Cols : update(j)
    \/ \E j \in Cols : addEntry(0, j)
    \/ \E j \in Cols : removeEntry(0, j)

SpecTracker == Init /\ [][NextTracker]_vars

\* ------------------------------------------------- the 7-column scenario
\* Seven columns under the pure policy. Column 0 has weight 2 (rows 0 and 1),
\* the columns 1..6 are in the rows 2..5, the columns 4..6 also in row 6:
\* weights 4 and 5, least row lengths 6 and 3. The driver inserts the
\* columns one at a time in any order, and may lengthen or shorten row 0 by
\* an entry in column 1, which brings the least row length of column 1 to 2.
ScenCols == 0 .. 6
ScenRows ==
    [i \in 0 .. 6 |-> IF i <= 1 THEN {0}
                      ELSE IF i <= 5 THEN ScenCols \ {0}
                      ELSE {4, 5, 6}]

Init7 ==
    /\ gmat = MatOf(ScenRows, <<"MKZTYPE_PURE", 3>>, ScenCols)
    /\ aborted = FALSE
    /\ nops = 0
    /\ last = [op |-> "MkzInit", dir |-> "none"]
    /\ diag = NoDiag(gmat)
    /\ par = <<>>

insert(j) ==
    /\ ~MkzIsAlive(gmat.MKZA, j)
    /\ gmat' = MkzInsert(gmat, j)
    /\ last' = [op |-> "MkzInsert", dir |-> "none"]
    /\ UNCHANGED <<aborted, nops>>
    /\ UNCHANGED <<diag, par>>

lengthen(i, j) ==
    /\ j \notin gmat.rows[i]
    /\ gmat' = AddEntry(gmat, i, j)
    /\ last' = [op |-> "MkzIncrCol", dir |-> "none"]
    /\ UNCHANGED <<aborted, nops>>
    /\ UNCHANGED <<diag, par>>

shorten(i, j) ==
    /\ j \in gmat.rows[i]
    /\ gmat' = RemoveEntry(gmat, i, j)
    /\ last' = [op |-> "MkzDecreaseColWeight", dir |-> "none"]
    /\ UNCHANGED <<aborted, nops>>
    /\ UNCHANGED <<diag, par>>

Next7 ==
    \/ \E j \in ScenCols : insert(j)
    \/ \E j \in ScenCols : MkzIsAlive(gmat.MKZA, j) /\ update(j)
    \/ lengthen(0, 1)
    \/ shorten(0, 1)

Spec7 == Init7 /\ [][Next7]_vars

\* ------------------------------------------------ the Cavallar scenario
\* Five columns of weights 0, 1, 2, 3, 5 under the Cavallar policy: column j
\* is in the rows 0 .. CavWeights[j+1]-1. The driver inserts the columns in
\* any order and may give column 0 or column 1 one more entry at a time, in
\* the first row that does not hold the column yet.
CavWeights == <<0, 1, 2, 3, 5>>
CavCols == 0 .. (Len(CavWeights) - 1)
CavRows == [i \in 0 .. 4 |-> {j \in CavCols : i < CavWeights[j + 1]}]

Init11 ==
    /\ gmat = MatOf(CavRows, <<"MKZTYPE_CAVALLAR", 3>>, CavCols)
    /\ aborted = FALSE
    /\ nops = 0
    /\ last = [op |-> "MkzInit", dir |-> "none"]
    /\ diag = NoDiag(gmat)
    /\ par = <<>>

Next11 ==
    \/ \E j \in CavCols : insert(j)
    \/ \E j \in CavCols : MkzIsAlive(gmat.MKZA, j) /\ update(j)
    \/ \E j \in {0, 1} : gmat.wt[j] \in DOMAIN gmat.rows /\ lengthen(gmat.wt[j], j)

Spec11 == Init11 /\ [][Next11]_vars

\* ------------------------------------------------------ batches of updates
\* The driver hands MkzUpdateN any list of alive columns, repetitions
\* allowed, of length up to MaxBatch, between its changes of row 0 in
\* column 0; it may remove the last column from the queue.
BatchLists(S) == UNION {[1 .. n -> S] : n \in 0 .. MaxBatch}

updateList(js) ==
    /\ ~aborted
    /\ \E r \in {MkzUpdateN(gmat, js, Len(js))} :
           gmat' = r.mat /\ aborted' = r.aborted
    /\ last' = [op |-> "MkzUpdateN", dir |-> "none"]
    /\ UNCHANGED nops
    /\ UNCHANGED <<diag, par>>

NextBatch ==
    \/ \E js \in BatchLists({c \in Cols : MkzIsAlive(gmat.MKZA, c)}) : updateList(js)
    \/ addEntry(0, 0)
    \/ removeEntry(0, 0)
    \/ removeColumn(NCols - 1)

InitBatch ==
    /\ \E m \in {<<BandRows, <<"MKZTYPE_CAVALLAR", 3>> >>, <<FullRows, <<"MKZTYPE_PURE", 3>> >>,
                <<StairRows, <<"MKZTYPE_LIGHT", 3>> >>} :
          gmat = MkzInit(MatOf(m[1], m[2], Cols))
    /\ aborted = FALSE
    /\ nops = 0
    /\ last = [op |-> "MkzInit", dir |-> "none"]
    /\ diag = NoDiag(gmat)
    /\ par = <<>>

SpecBatch == InitBatch /\ [][NextBatch]_vars

\* ------------------------------------------------------------- vocabulary
Count(mat) == mat.MKZQ[0]
ColAt(mat, k) == MkzGet(mat.MKZQ, k, 0)
CostAt(mat, k) == MkzGet(mat.MKZQ, k, 1)
Alive(mat) == {c \in DOMAIN mat.MKZA : MkzIsAlive(mat.MKZA, c)}
StoredCost(mat, c) == CostAt(mat, mat.MKZA[c])
IsPolicy(mat, name) == mat.mkztype = name

\* the cost of column c read off the matrix: the policy's value, 0 if negative
PolicyValue(mat, c) ==
    IF IsPolicy(mat, "MKZTYPE_LIGHT") THEN lightColAndMkz(mat, c)
    ELSE IF IsPolicy(mat, "MKZTYPE_PURE") THEN pureMkz(mat, c)
    ELSE mat.wt[c]
FreshCost(mat, c) ==
    LET value == PolicyValue(mat, c)
    IN  IF value < 0 THEN 0 ELSE value
IsFresh(mat, c) == StoredCost(mat, c) = FreshCost(mat, c)

\* the least length of the rows listed for column c
MinRowLength(mat, c) ==
    LET lens == {Cardinality(mat.rows[mat.R[c][x]]) : x \in 1 .. Len(mat.R[c])}
    IN  CHOOSE m \in lens : \A n \in lens : m <= n

HeapOrdered(mat) ==
    \A k \in 1 .. Count(mat) :
        /\ (2 * k <= Count(mat) => CostAt(mat, k) <= CostAt(mat, 2 * k))
        /\ (2 * k + 1 <= Count(mat) => CostAt(mat, k) <= CostAt(mat, 2 * k + 1))

Bijective(mat) ==
    /\ \A k \in 1 .. Count(mat) : ColAt(mat, k) \in Alive(mat) /\ mat.MKZA[ColAt(mat, k)] = k
    /\ \A c \in Alive(mat) : mat.MKZA[c] \in 1 .. Count(mat) /\ ColAt(mat, mat.MKZA[c]) = c

\* ------------------------------------------------------------ the teardown
\* A run that ends with MkzClear. The merge takes the column at slot 1 out of
\* the queue, changes row 0 and updates columns; diag.rootmax follows the
\* largest cost slot 1 has held since the queue was built.
Larger(a, b) == IF a >= b THEN a ELSE b

SeenAtRoot(d, mat) ==
    IF Count(mat) >= 1 THEN [d EXCEPT !.rootmax = Larger(@, CostAt(mat, 1))] ELSE d

updateSeen(j) ==
    /\ ~aborted /\ ~diag.freed
    /\ MkzIsAlive(gmat.MKZA, j)
    /\ gmat' = MkzUpdate(gmat, j).mat
    /\ diag' = SeenAtRoot(diag, gmat')
    /\ last' = [op |-> "MkzUpdate", dir |-> Direction(gmat.MKZA[j], gmat'.MKZA[j])]
    /\ UNCHANGED <<aborted, nops, par>>

popSeen ==
    /\ ~aborted /\ ~diag.freed
    /\ Count(gmat) >= 2
    /\ nops < MaxOps
    /\ gmat' = MkzRemoveJ(gmat, ColAt(gmat, 1))
    /\ diag' = SeenAtRoot(diag, gmat')
    /\ nops' = nops + 1
    /\ last' = [op |-> "MkzRemoveJ", dir |-> "none"]
    /\ UNCHANGED <<aborted, par>>

clear(verbose) ==
    /\ ~aborted /\ ~diag.freed
    /\ diag' = [diag EXCEPT !.out = MkzClear(gmat, verbose), !.freed = TRUE]
    /\ last' = [op |-> "MkzClear", dir |-> "none"]
    /\ UNCHANGED <<gmat, aborted, nops, par>>

NextClear ==
    \/ \E j \in Cols : updateSeen(j)
    \/ popSeen
    \/ \E j \in Cols : ~diag.freed /\ addEntry(0, j)
    \/ \E j \in Cols : ~diag.freed /\ removeEntry(0, j)
    \/ \E verbose \in BOOLEAN : clear(verbose)

SpecClear == Init /\ [][NextClear]_vars

\* ------------------------------------------- two repairs side by side
\* The sequential pass of the parallel MkzUpdateN (lines 333-338) run by two
\* processes at once, one column each, every step one read or one write of Q
\* or A. A process holds the column it repairs (col), the cost computed for
\* it beforehand (mkz), and the local variables of MkzMoveUpOrDown,
\* MkzUpQueue, MkzDownQueue and MkzAssign: k, dj, count, j and the values
\* just read (t1, t2). With par.locked a process runs from start to end
\* before the other one starts.
ParProcs == {1, 2}

ParStart(c, mkz) ==
    [pc |-> "adr", col |-> c, mkz |-> mkz, k |-> 0, dj |-> 0, count |-> 0,
     j |-> 0, dir |-> "none", t1 |-> 0, t2 |-> 0]

\* mutant: the repair never takes the way up
ParGoesUp_never(father, son) == FALSE

\* line 143: the father's cost is larger, the column has to move up
ParGoesUp(father, son) == father > son

\* mutant: the slot is not changed after the father or the son was copied
ParNextSlot_same(r) == r.k

\* lines 84 and 116: the slot the element goes to after MkzAssign
ParNextSlot(r) == r.j

\* one step of a process r on the shared Q and A
ParStep(Q, A, r) ==
    CASE r.pc = "adr" ->  \* line 335
           [Q |-> Q, A |-> A, r |-> [r EXCEPT !.k = A[r.col], !.pc = "set"]]
      [] r.pc = "set" ->  \* line 336
           [Q |-> MkzSet(Q, r.k, 1, r.mkz), A |-> A, r |-> [r EXCEPT !.pc = "m0"]]
      [] r.pc = "m0" ->   \* lines 138, 143: the father's cost
           [Q |-> Q, A |-> A,
            r |-> IF r.k = 1 THEN [r EXCEPT !.pc = "d0"]
                  ELSE [r EXCEPT !.t1 = MkzGet(Q, r.k \div 2, 1), !.pc = "m1"]]
      [] r.pc = "m1" ->   \* line 143: the son's cost
           [Q |-> Q, A |-> A,
            r |-> [r EXCEPT !.t1 = 0,
                            !.pc = IF ParGoesUp(r.t1, MkzGet(Q, r.k, 1)) THEN "u0" ELSE "d0"]]
      [] r.pc = "u0" ->   \* line 75
           [Q |-> Q, A |-> A, r |-> [r EXCEPT !.dj = MkzGet(Q, r.k, 0), !.pc = "u1"]]
      [] r.pc = "u1" ->   \* line 75
           [Q |-> Q, A |-> A,
            r |-> [r EXCEPT !.count = MkzGet(Q, r.k, 1), !.dir = "up", !.pc = "u2"]]
      [] r.pc = "u2" ->   \* line 80
           [Q |-> Q, A |-> A,
            r |-> IF r.k > 1 /\ MkzGet(Q, r.k \div 2, 1) >= r.count
                  THEN [r EXCEPT !.j = r.k \div 2, !.pc = "a0"]
                  ELSE [r EXCEPT !.pc = "w0"]]
      [] r.pc = "d0" ->   \* line 100
           [Q |-> Q, A |-> A, r |-> [r EXCEPT !.dj = MkzGet(Q, r.k, 0), !.pc = "d1"]]
      [] r.pc = "d1" ->   \* line 100
           [Q |-> Q, A |-> A,
            r |-> [r EXCEPT !.count = MkzGet(Q, r.k, 1), !.dir = "down", !.pc = "d2"]]
      [] r.pc = "d2" ->   \* lines 105-106
           [Q |-> Q, A |-> A,
            r |-> IF 2 * r.k <= Q[0]
                  THEN [r EXCEPT !.j = 2 * r.k, !.pc = IF 2 * r.k < Q[0] THEN "d3" ELSE "d5"]
                  ELSE [r EXCEPT !.pc = "w0"]]
      [] r.pc = "d3" ->   \* line 108, left son
           [Q |-> Q, A |-> A, r |-> [r EXCEPT !.t1 = MkzGet(Q, r.j, 1), !.pc = "d4"]]
      [] r.pc = "d4" ->   \* lines 108-109, right son
           [Q |-> Q, A |-> A,
            r |-> [r EXCEPT !.j = IF r.t1 > MkzGet(Q, r.j + 1, 1) THEN r.j + 1 ELSE r.j,
                            !.t1 = 0, !.pc = "d5"]]
      [] r.pc = "d5" ->   \* line 111
           [Q |-> Q, A |-> A,
            r |-> [r EXCEPT !.pc = IF r.count <= MkzGet(Q, r.j, 1) THEN "w0" ELSE "a0"]]
      [] r.pc = "a0" ->   \* line 46
           [Q |-> Q, A |-> A, r |-> [r EXCEPT !.t2 = MkzGet(Q, r.j, 0), !.pc = "a1"]]
      [] r.pc = "a1" ->   \* line 48
           [Q |-> MkzSet(Q, r.k, 0, r.t2), A |-> A, r |-> [r EXCEPT !.pc = "a2"]]
      [] r.pc = "a2" ->   \* line 49, the read
           [Q |-> Q, A |-> A, r |-> [r EXCEPT !.t1 = MkzGet(Q, r.j, 1), !.pc = "a3"]]
      [] r.pc = "a3" ->   \* line 49, the write
           [Q |-> MkzSet(Q, r.k, 1, r.t1), A |-> A, r |-> [r EXCEPT !.t1 = 0, !.pc = "a4"]]
      [] r.pc = "a4" ->   \* line 50, then lines 84 or 116
           [Q |-> Q, A |-> [A EXCEPT ![r.t2] = r.k],
            r |-> [r EXCEPT !.k = ParNextSlot(r), !.j = 0, !.t2 = 0,
                            !.pc = IF r.dir = "up" THEN "u2" ELSE "d2"]]
      [] r.pc = "w0" ->   \* lines 87, 120
           [Q |-> MkzSet(Q, r.k, 0, r.dj), A |-> A, r |-> [r EXCEPT !.pc = "w1"]]
      [] r.pc = "w1" ->   \* lines 88, 121
           [Q |-> MkzSet(Q, r.k, 1, r.count), A |-> A, r |-> [r EXCEPT !.pc = "w2"]]
      [] r.pc = "w2" ->   \* lines 89, 122
           [Q |-> Q, A |-> [A EXCEPT ![r.dj] = r.k], r |-> [r EXCEPT !.pc = "done"]]

\* the queue built on the weights 0, 1, 2, 3, 5; then two columns c1 < c2 get
\* new weights and their costs are computed (lines 330-331)
ParNewWeights == 0 .. 5

ParMatrix(c1, w1, c2, w2) ==
    LET built == MkzInitLoop(MatOf(CavRows, <<"MKZTYPE_CAVALLAR", 3>>, CavCols), 0)
        W == [c \in CavCols |-> IF c = c1 THEN w1 ELSE IF c = c2 THEN w2 ELSE CavWeights[c + 1]]
        m2 == MatOf([i \in DOMAIN CavRows |-> {c \in CavCols : i < W[c]}],
                    <<"MKZTYPE_CAVALLAR", 3>>, CavCols)
    IN  [built EXCEPT !.rows = m2.rows, !.R = m2.R, !.wt = m2.wt]

InitPar ==
    /\ \E c1, c2 \in CavCols, w1, w2 \in ParNewWeights, locked \in BOOLEAN :
          /\ c1 < c2
          /\ gmat = ParMatrix(c1, w1, c2, w2)
          /\ par = [locked |-> locked, start |-> gmat,
                    proc |-> <<ParStart(c1, MkzCount(gmat, c1)), ParStart(c2, MkzCount(gmat, c2))>>]
    /\ aborted = FALSE
    /\ nops = 0
    /\ last = [op |-> "MkzInit", dir |-> "none"]
    /\ diag = NoDiag(gmat)

step(p) ==
    /\ par.proc[p].pc # "done"
    /\ par.locked => par.proc[3 - p].pc \in {"adr", "done"}
    /\ LET s == ParStep(gmat.MKZQ, gmat.MKZA, par.proc[p])
       IN  /\ gmat' = [gmat EXCEPT !.MKZQ = s.Q, !.MKZA = s.A]
           /\ par' = [par EXCEPT !.proc[p] = s.r]
    /\ UNCHANGED <<aborted, nops, last, diag>>

NextPar == \E p \in ParProcs : step(p)

SpecPar == InitPar /\ [][NextPar]_vars

\* ------------------------------------------- repairs one after the other
\* The repairs of MkzUpdateN over a list of two columns, step by step, the
\* second one starting when the first one has ended. A repair that has begun
\* is run to its end by the thread that called it: each process takes its
\* next step as long as it has one.
InitRepair == InitPar /\ par.locked

SpecRepair == InitRepair /\ [][NextPar]_vars /\ WF_vars(step(1)) /\ WF_vars(step(2))

\* ------------------------------------------------------- the heap repairs
\* Five columns under the Cavallar policy, where the cost of a column is its
\* weight: column j is in the rows 0 .. wt[j]-1. The queue is built on one of
\* the weight lists of SiftWeights; the driver then gives a column one entry
\* more or one entry less, takes the column at slot 1 out of the queue, and
\* updates columns.
SiftWeights == {<<1, 2, 1, 2, 2>>, <<2, 2, 2, 2, 2>>, <<0, 1, 2, 3, 4>>, <<3, 2, 2, 1, 1>>}
SiftCols == 0 .. 4
SiftRows(w) == [i \in 0 .. 4 |-> {j \in SiftCols : i < w[j + 1]}]

InitSift ==
    /\ \E w \in SiftWeights :
          gmat = MkzInitLoop(MatOf(SiftRows(w), <<"MKZTYPE_CAVALLAR", 3>>, SiftCols), 0)
    /\ aborted = FALSE
    /\ nops = 0
    /\ last = [op |-> "MkzInit", dir |-> "none"]
    /\ diag = NoDiag(gmat)
    /\ par = <<>>

heavier(j) ==
    /\ ~aborted
    /\ nops < MaxOps
    /\ gmat.wt[j] \in DOMAIN gmat.rows
    /\ gmat' = AddEntry(gmat, gmat.wt[j], j)
    /\ nops' = nops + 1
    /\ last' = [op |-> "MkzIncrCol", dir |-> "none"]
    /\ UNCHANGED <<aborted, diag, par>>

lighter(j) ==
    /\ ~aborted
    /\ nops < MaxOps
    /\ gmat.wt[j] > 0
    /\ gmat' = RemoveEntry(gmat, gmat.wt[j] - 1, j)
    /\ nops' = nops + 1
    /\ last' = [op |-> "MkzDecreaseColWeight", dir |-> "none"]
    /\ UNCHANGED <<aborted, diag, par>>

NextSift ==
    \/ \E j \in SiftCols : update(j)
    \/ \E j \in SiftCols : heavier(j)
    \/ \E j \in SiftCols : lighter(j)
    \/ Count(gmat) >= 1 /\ removeColumn(ColAt(gmat, 1))

SpecSift == InitSift /\ [][NextSift]_vars

\* ---------------------------------------------------- the driver protocol
\* After each change of the matrix the driver calls MkzUpdate for exactly the
\* columns whose weight has changed: an entry of row 0 or row 1 comes or
\* goes in column j, then column j is updated if it is in the queue. The
\* driver may also take the column at slot 1 out of the queue.
ProtocolRows == {0, 1}

UpdateIfAlive(mat, j) == IF MkzIsAlive(mat.MKZA, j) THEN MkzUpdate(mat, j).mat ELSE mat

addAndUpdate(i, j) ==
    /\ ~aborted
    /\ nops < MaxOps
    /\ j \notin gmat.rows[i]
    /\ gmat' = UpdateIfAlive(AddEntry(gmat, i, j), j)
    /\ nops' = nops + 1
    /\ last' = [op |-> "MkzUpdate", dir |-> Direction(gmat.MKZA[j], gmat'.MKZA[j])]
    /\ UNCHANGED <<aborted, diag, par>>

removeAndUpdate(i, j) ==
    /\ ~aborted
    /\ nops < MaxOps
    /\ j \in gmat.rows[i]
    /\ gmat' = UpdateIfAlive(RemoveEntry(gmat, i, j), j)
    /\ nops' = nops + 1
    /\ last' = [op |-> "MkzUpdate", dir |-> Direction(gmat.MKZA[j], gmat'.MKZA[j])]
    /\ UNCHANGED <<aborted, diag, par>>

NextProtocol ==
    \/ \E i \in ProtocolRows, j \in Cols : addAndUpdate(i, j)
    \/ \E i \in ProtocolRows, j \in Cols : removeAndUpdate(i, j)
    \/ Count(gmat) >= 2 /\ removeColumn(ColAt(gmat, 1))

SpecProtocol == Init /\ [][NextProtocol]_vars

\* ------------------------------------------- the width of the pure cost
\* MkzCount under the pure policy for a column of weight w >= 3 whose
\* lightest row has w0 entries, for weights and lengths up to the largest
\* int: the value returned by pureMkz (line 223) and then made non-negative
\* (lines 268-270). The matrix itself stays as built.
WidthWeights == {3, 4, 5, 1026, 32770, 46343, 65538, 1073741826, 2147483647}
WidthLengths == {1, 2, 3, 4, 1026, 32770, 46343, 65538, 2147483647}

InitWidth ==
    /\ gmat = MkzInit(MatOf(FullRows, <<"MKZTYPE_PURE", 3>>, Cols))
    /\ aborted = FALSE
    /\ nops = 0
    /\ \E w \in WidthWeights, w0 \in WidthLengths :
          last = [op |-> "MkzInit", dir |-> "none", w |-> w, w0 |-> w0, cost |-> 0]
    /\ diag = NoDiag(gmat)
    /\ par = <<>>

countPure ==
    /\ last.op = "MkzInit"
    /\ last' = [last EXCEPT !.op = "MkzCount",
                            !.cost = MkzNonNegative(pureMkzReturn(last.w0, last.w))]
    /\ UNCHANGED <<gmat, aborted, nops, diag, par>>

NextWidth == countPure

SpecWidth == InitWidth /\ [][NextWidth]_vars

\* ------------------------------------------------------ the debug checker
\* MkzIsHeap on any queue content: one to five columns under the Cavallar
\* policy with any weights 0..2, column k-1 at slot k with its weight as
\* cost, heap ordered or not.
IsHeapSizes == 1 .. 5
IsHeapCosts == 0 .. 2

AnyQueue(n, cost) ==
    LET cols == 0 .. (n - 1)
        mat == MatOf([i \in 0 .. 1 |-> {j \in cols : i < cost[j + 1]}],
                     <<"MKZTYPE_CAVALLAR", 3>>, cols)
    IN  [mat EXCEPT !.MKZQ = [x \in DOMAIN mat.MKZQ |->
                                 IF x = 0 THEN n
                                 ELSE IF x = 1 THEN 0
                                 ELSE IF x % 2 = 0 THEN x \div 2 - 1
                                 ELSE cost[x \div 2]],
                    !.MKZA = [c \in cols |-> c + 1]]

InitIsHeap ==
    /\ \E n \in IsHeapSizes : \E cost \in [1 .. n -> IsHeapCosts] : gmat = AnyQueue(n, cost)
    /\ aborted = FALSE
    /\ nops = 0
    /\ last = [op |-> "MkzInit", dir |-> "none", ret |-> 0]
    /\ diag = NoDiag(gmat)
    /\ par = <<>>

isHeap ==
    /\ last.op = "MkzInit"
    /\ last' = [last EXCEPT !.op = "MkzIsHeap", !.ret = MkzIsHeap(gmat.MKZQ)]
    /\ UNCHANGED <<gmat, aborted, nops, diag, par>>

NextIsHeap == isHeap

SpecIsHeap == InitIsHeap /\ [][NextIsHeap]_vars

\* ----------------------------------------- the special-q factor range
\* las_info::is_in_qfac_range (sieve/las-info.hpp) on the fields qfac_min
\* and qfac_max of the object. The values are uint64_t and are only
\* compared; UINT64_MAX stands here as the largest value the checker holds.
UINT64_MAX == 2147483647

\* lines 118-120
is_in_qfac_range(qfac_min, qfac_max, p) == (p >= qfac_min) /\ (p >= qfac_max)

QfacValues == {0, 1, 1023, 1024, 1025, 2048, UINT64_MAX}

InitQfac ==
    /\ gmat = MkzInit(MatOf(FullRows, <<"MKZTYPE_PURE", 3>>, Cols))
    /\ aborted = FALSE
    /\ nops = 0
    /\ \E lo \in QfacValues, hi \in QfacValues, p \in QfacValues :
          /\ lo <= hi
          /\ last = [op |-> "las_info", dir |-> "none",
                     qfac_min |-> lo, qfac_max |-> hi, p |-> p, ret |-> FALSE]
    /\ diag = NoDiag(gmat)
    /\ par = <<>>

inQfacRange ==
    /\ last.op = "las_info"
    /\ last' = [last EXCEPT !.op = "is_in_qfac_range",
                            !.ret = is_in_qfac_range(last.qfac_min, last.qfac_max, last.p)]
    /\ UNCHANGED <<gmat, aborted, nops, diag, par>>

NextQfac == inQfacRange

SpecQfac == InitQfac /\ [][NextQfac]_vars

\* ------------------------------------------------------------------ claims

\* C1: heap invariant. After any sequence of MkzUpdate / MkzUpdateN calls,
\* interleaved with weight changes of the matrix, every slot k of [1, Q[0]]
\* has cost(k) <= cost(2k) and cost(k) <= cost(2k+1) where these slots exist.
C1_HeapInvariant == HeapOrdered(gmat)

\* an update has just moved a column down a queue of at least three
C1_Witness ==
    /\ last.op = "MkzUpdate" /\ last.dir = "down"
    /\ Count(gmat) >= 3 /\ nops >= 1

\* C2: bijection invariant. Every slot k of [1, Q[0]] has A[Q[k].column] = k,
\* every alive column c has Q[A[c]].column = c; no column occupies two slots
\* and none is lost.
C2_Bijection ==
    /\ Bijective(gmat)
    /\ Cardinality(Alive(gmat)) = Count(gmat)
    /\ \A k1, k2 \in 1 .. Count(gmat) : ColAt(gmat, k1) = ColAt(gmat, k2) => k1 = k2

\* an update has just moved a column up
C2_Witness ==
    /\ last.op = "MkzUpdate" /\ last.dir = "up"
    /\ Count(gmat) >= 3

\* C3: peek-minimum. The column at slot 1 has a stored cost <= the stored
\* cost of every alive column.
C3_PeekMinimum ==
    \A c \in Alive(gmat) : CostAt(gmat, 1) <= StoredCost(gmat, c)

\* a batch update has run and the root is strictly cheaper than some column
C3_Witness ==
    /\ last.op = "MkzUpdateN" /\ nops >= 1 /\ ~aborted
    /\ \E c \in Alive(gmat) : CostAt(gmat, 1) < StoredCost(gmat, c)

\* C4: result of MkzUpdate(j) on an alive column j: slot A[j] holds column j
\* and its stored cost is the policy's value for j on the current matrix,
\* 0 if that value is negative.
C4_UpdateResult ==
    \A j \in Alive(gmat) :
        LET m2 == MkzUpdate(gmat, j).mat
        IN  /\ MkzIsAlive(m2.MKZA, j)
            /\ ColAt(m2, m2.MKZA[j]) = j
            /\ StoredCost(m2, j) = FreshCost(gmat, j)

\* an update has moved a column whose cost had changed, while another column
\* still waits for its update
C4_Witness ==
    /\ last.op = "MkzUpdate" /\ last.dir \in {"up", "down"} /\ nops >= 1
    /\ \E c \in Alive(gmat) : IsFresh(gmat, c)
    /\ \E c \in Alive(gmat) : ~IsFresh(gmat, c)

\* C5: idempotence. A second MkzUpdate(c) with no matrix change in between
\* leaves Q and A, slot by slot, as the first call left them.
C5_Idempotent ==
    \A c \in Alive(gmat) :
        LET m1 == MkzUpdate(gmat, c).mat
            m2 == MkzUpdate(m1, c).mat
        IN  m2.MKZQ = m1.MKZQ /\ m2.MKZA = m1.MKZA

\* some column's first update rearranges the queue
C5_Witness ==
    \E c \in Alive(gmat) :
        /\ MkzUpdate(gmat, c).mat.MKZQ # gmat.MKZQ
        /\ MkzUpdate(gmat, c).mat.MKZA # gmat.MKZA
        /\ MkzUpdate(MkzUpdate(gmat, c).mat, c).mat = MkzUpdate(gmat, c).mat

\* C6: dead-column exclusion. Once A[c] = MKZ_INF, c stays dead for ever; an
\* update step leaves the slots past Q[0] (where a removed column may still
\* be named) untouched; no slot of [1, Q[0]] names a dead column, so the
\* column at slot 1 is never a dead one.
C6_LiveSlotsOnly(mat) ==
    \A k \in 1 .. Count(mat) : MkzIsAlive(mat.MKZA, ColAt(mat, k))

C6_DeadColumnExclusion ==
    [][ /\ \A c \in Cols : ~MkzIsAlive(gmat.MKZA, c) => ~MkzIsAlive(gmat'.MKZA, c)
        /\ last'.op \in {"MkzUpdate", "MkzUpdateN"} =>
              \A x \in DOMAIN gmat.MKZQ : x > 2 * Count(gmat) + 1 => gmat'.MKZQ[x] = gmat.MKZQ[x]
        /\ C6_LiveSlotsOnly(gmat) /\ C6_LiveSlotsOnly(gmat')
      ]_vars

\* a column is dead and an update has just moved another column
C6_Witness ==
    /\ \E c \in Cols : ~MkzIsAlive(gmat.MKZA, c)
    /\ last.op = "MkzUpdate" /\ last.dir \in {"up", "down"}

\* C7: MkzUpdate on a dead column stops at the assertion before any write: Q
\* and A are as they were. In MkzUpdateN the elements before the first dead
\* one are processed and nothing is written from the dead one on.
C7_StoppedAt(mat, js, i) ==
    LET before == MkzUpdateN(mat, js, i - 1)
    IN  /\ ~before.aborted
        /\ ~MkzIsAlive(before.mat.MKZA, js[i])
        /\ gmat' = before.mat

C7_DeadUpdateAborts ==
    [][ /\ \A j \in Cols : ~MkzIsAlive(gmat.MKZA, j) =>
              MkzUpdate(gmat, j).aborted /\ MkzUpdate(gmat, j).mat = gmat
        /\ \A j \in Cols : MkzIsAlive(gmat.MKZA, j) => ~MkzUpdate(gmat, j).aborted
        /\ (~aborted /\ aborted') =>
              \/ /\ last'.op = "MkzUpdate"
                 /\ gmat' = gmat
                 /\ \E j \in Cols : ~MkzIsAlive(gmat.MKZA, j)
              \/ /\ last'.op = "MkzUpdateN"
                 /\ LET js == Batch(gmat.rows, 0)
                    IN  \E i \in 1 .. Len(js) : C7_StoppedAt(gmat, js, i)
      ]_vars

\* an update of a dead column has stopped the program
C7_Witness ==
    /\ aborted /\ last.op = "MkzUpdate"
    /\ \E j \in Cols : ~MkzIsAlive(gmat.MKZA, j)

\* C8: pure Markowitz values. pureMkz is -4 for weight <= 1, -2 for weight 2
\* and (w0-2)*(w-2)-2 otherwise, w0 the least length of the column's rows;
\* under the pure policy the cost MkzCount hands to the queue is that value,
\* 0 if it is negative: weight 1, weight 2 and weight 3 with w0 = 2 all give 0.
C8_Expected(mat, j) ==
    LET w == mat.wt[j]
    IN  IF w <= 1 THEN -4
        ELSE IF w = 2 THEN -2
        ELSE (MinRowLength(mat, j) - 2) * (w - 2) - 2

C8_PureValues ==
    \A j \in Cols :
        /\ pureMkz(gmat, j) = C8_Expected(gmat, j)
        /\ IsPolicy(gmat, "MKZTYPE_PURE") =>
              /\ MkzCount(gmat, j) = (IF C8_Expected(gmat, j) < 0 THEN 0 ELSE C8_Expected(gmat, j))
              /\ (gmat.wt[j] <= 2 => MkzCount(gmat, j) = 0)
              /\ (gmat.wt[j] = 3 /\ MinRowLength(gmat, j) = 2 => MkzCount(gmat, j) = 0)

\* under the pure policy, after an update, columns of weight 1, of weight 2
\* and of weight 3 with w0 = 2 are queued with the stored cost 0
C8_Witness ==
    /\ IsPolicy(gmat, "MKZTYPE_PURE") /\ last.op = "MkzUpdate"
    /\ \E j \in Alive(gmat) : gmat.wt[j] = 1 /\ pureMkz(gmat, j) = -4 /\ StoredCost(gmat, j) = 0
    /\ \E j \in Alive(gmat) : gmat.wt[j] = 2 /\ pureMkz(gmat, j) = -2 /\ StoredCost(gmat, j) = 0
    /\ \E j \in Alive(gmat) : /\ gmat.wt[j] = 3 /\ MinRowLength(gmat, j) = 2
                              /\ pureMkz(gmat, j) = -2 /\ StoredCost(gmat, j) = 0

\* C9: under the pure and the light policy, whenever an alive column whose
\* stored cost is up to date has weight <= 1, the column at slot 1 has
\* weight <= 1.
C9_SingletonsFirst ==
    (/\ (IsPolicy(gmat, "MKZTYPE_PURE") \/ IsPolicy(gmat, "MKZTYPE_LIGHT"))
     /\ \E c \in Alive(gmat) : gmat.wt[c] <= 1 /\ IsFresh(gmat, c))
    => gmat.wt[ColAt(gmat, 1)] <= 1

\* C10 as stated: under the pure policy, in a queue of 7 columns with all
\* costs up to date, where exactly one column has weight 2 and every other
\* column has weight >= 4, whatever the row lengths, the column at slot 1 is
\* the column of weight 2.
C10_Scenario(mat) ==
    /\ IsPolicy(mat, "MKZTYPE_PURE")
    /\ Count(mat) = 7 /\ Cardinality(Alive(mat)) = 7
    /\ Cardinality({c \in Alive(mat) : mat.wt[c] = 2}) = 1
    /\ \A c \in Alive(mat) : mat.wt[c] = 2 \/ mat.wt[c] >= 4
    /\ \A c \in Alive(mat) : IsFresh(mat, c)

C10_AnyRowLengths ==
    C10_Scenario(gmat) => gmat.wt[ColAt(gmat, 1)] = 2

\* C10, amended: in that scenario, when every column of weight >= 4 has a
\* pure Markowitz value > 0, that is (w0-2)*(w-2) > 2, the column at slot 1 is
\* the column of weight 2, for every order of the insertions and updates.
C10_PositiveFillIn ==
    (/\ C10_Scenario(gmat)
     /\ \A c \in Alive(gmat) : gmat.wt[c] >= 4 => pureMkz(gmat, c) > 0)
    => gmat.wt[ColAt(gmat, 1)] = 2

\* all seven columns are queued with positive values for the heavy ones, and
\* the last update has sent a heavy column back down below the light one
C10_Witness ==
    /\ C10_Scenario(gmat)
    /\ \A c \in Alive(gmat) : gmat.wt[c] >= 4 => pureMkz(gmat, c) > 0
    /\ last.op = "MkzUpdate" /\ last.dir = "down"
    /\ gmat.wt[ColAt(gmat, 1)] = 2

\* C11: Cavallar scenario. With pairwise distinct column weights and all
\* costs up to date, the column at slot 1 is the column of least weight; so
\* after the root column's weight has been raised above the second smallest
\* weight and MkzUpdate has been called on it, slot 1 holds the column of the
\* new least weight (weights [0,1,2,3,5]: column 0, then column 1 once
\* column 0 has weight 4).
C11_Distinct(mat) ==
    /\ IsPolicy(mat, "MKZTYPE_CAVALLAR")
    /\ Count(mat) = Cardinality(DOMAIN mat.MKZA)
    /\ \A c \in Alive(mat) : IsFresh(mat, c)
    /\ \A c, d \in Alive(mat) : c # d => mat.wt[c] # mat.wt[d]

C11_CavallarScenario ==
    C11_Distinct(gmat) => \A c \in Alive(gmat) : gmat.wt[ColAt(gmat, 1)] <= gmat.wt[c]

\* column 0 was raised from weight 0 to weight 4 and updated: it has left the
\* root, where the column of weight 1 now is
C11_Witness ==
    /\ C11_Distinct(gmat)
    /\ gmat.wt = [c \in CavCols |-> IF c = 0 THEN 4 ELSE CavWeights[c + 1]]
    /\ last.op = "MkzUpdate" /\ last.dir = "down"
    /\ ColAt(gmat, 1) = 1

\* C12: the light-column policy agrees with pure Markowitz outside the MST
\* range. For every threshold wmstmax and every column whose weight is <= 1
\* or exceeds wmstmax, lightColAndMkz returns the value of pureMkz; with
\* wmstmax <= 1 that holds for every column, and MkzCount stores the same
\* cost under both policies.
C12_WithThreshold(mat, w) == [mat EXCEPT !.wmstmax = w]

C12_LightAgreesWithPure ==
    \A j \in Cols :
        /\ \A w \in -1 .. (NRows + 1) :
              (gmat.wt[j] <= 1 \/ gmat.wt[j] > w) =>
                  lightColAndMkz(C12_WithThreshold(gmat, w), j) = pureMkz(gmat, j)
        /\ \A w \in -1 .. 1 :
              /\ lightColAndMkz(C12_WithThreshold(gmat, w), j) = pureMkz(gmat, j)
              /\ MkzCount([C12_WithThreshold(gmat, w) EXCEPT !.mkztype = "MKZTYPE_LIGHT"], j)
                   = MkzCount([gmat EXCEPT !.mkztype = "MKZTYPE_PURE"], j)

\* under the light policy an update has run on a matrix with a column above
\* wmstmax, a column of weight <= 1, and a column inside the MST range where
\* the two policies differ
C12_Witness ==
    /\ IsPolicy(gmat, "MKZTYPE_LIGHT") /\ last.op = "MkzUpdate"
    /\ \E j \in Alive(gmat) : gmat.wt[j] > gmat.wmstmax /\ lightColAndMkz(gmat, j) = pureMkz(gmat, j)
    /\ \E j \in Alive(gmat) : gmat.wt[j] <= 1 /\ lightColAndMkz(gmat, j) = pureMkz(gmat, j)
    /\ \E j \in Alive(gmat) : /\ gmat.wt[j] >= 2 /\ gmat.wt[j] <= gmat.wmstmax
                              /\ lightColAndMkz(gmat, j) # pureMkz(gmat, j)

\* C13: Cavallar policy. The cost is the column's weight verbatim, for every
\* weight >= 0, and MkzCount applies this policy for every mkztype that is
\* neither MKZTYPE_LIGHT nor MKZTYPE_PURE; under such a type MkzUpdate stores
\* the weight.
C13_OtherTypes == {"MKZTYPE_CAVALLAR", "MKZTYPE_UNKNOWN"}

C13_CavallarVerbatim ==
    \A j \in Cols :
        /\ Cavallar(gmat, j) = gmat.wt[j]
        /\ \A ty \in C13_OtherTypes :
              LET m == [gmat EXCEPT !.mkztype = ty]
              IN  gmat.wt[j] >= 0 => MkzCount(m, j) = gmat.wt[j]
        /\ MkzIsAlive(gmat.MKZA, j) =>
              StoredCost(MkzUpdate([gmat EXCEPT !.mkztype = "MKZTYPE_UNKNOWN"], j).mat, j)
                = gmat.wt[j]

\* under the Cavallar policy an update has moved a column, and every queued
\* column is stored with its weight, one of them of weight 3
C13_Witness ==
    /\ IsPolicy(gmat, "MKZTYPE_CAVALLAR")
    /\ last.op = "MkzUpdate" /\ last.dir \in {"up", "down"}
    /\ \A c \in Alive(gmat) : StoredCost(gmat, c) = gmat.wt[c]
    /\ \E c \in Alive(gmat) : gmat.wt[c] = 3

\* C14: cost range. Under each of the three policies the cost MkzCount hands
\* to MkzUpdate is >= 0 (a negative policy value is stored as 0), and every
\* cost stored in Q is >= 0 and strictly below the dead-column sentinel
\* MKZ_INF.
C14_Policies == {"MKZTYPE_CAVALLAR", "MKZTYPE_PURE", "MKZTYPE_LIGHT"}

C14_CostRange ==
    /\ \A k \in 1 .. Count(gmat) : CostAt(gmat, k) >= 0 /\ CostAt(gmat, k) < MKZ_INF
    /\ \A j \in Cols, ty \in C14_Policies :
          LET m == [gmat EXCEPT !.mkztype = ty]
              v == IF ty = "MKZTYPE_LIGHT" THEN lightColAndMkz(m, j)
                   ELSE IF ty = "MKZTYPE_PURE" THEN pureMkz(m, j)
                   ELSE Cavallar(m, j)
          IN  /\ MkzCount(m, j) >= 0 /\ MkzCount(m, j) < MKZ_INF
              /\ v < 0 => MkzCount(m, j) = 0

\* an update has just stored 0 for a column whose policy value is negative
C14_Witness ==
    /\ last.op = "MkzUpdate" /\ last.dir # "none" /\ nops >= 1
    /\ \E c \in Alive(gmat) : PolicyValue(gmat, c) < 0 /\ StoredCost(gmat, c) = 0
    /\ \E c \in Alive(gmat) : StoredCost(gmat, c) > 0

\* C15: batch update equivalence. For every list js of alive columns,
\* repetitions allowed, MkzUpdateN(js) leaves the Q and A that calling
\* MkzUpdate on each column in the order of the list leaves, and the
\* two-phase form (all costs first, then the repairs in order) leaves the
\* same Q and A.
RECURSIVE C15_UpdateEach(_, _)
C15_UpdateEach(mat, js) ==
    IF js = <<>> THEN mat
    ELSE C15_UpdateEach(MkzUpdate(mat, Head(js)).mat, Tail(js))

C15_BatchEquivalence ==
    \A js \in BatchLists(Alive(gmat)) :
        LET r == MkzUpdateN(gmat, js, Len(js))
        IN  /\ ~r.aborted
            /\ r.mat = C15_UpdateEach(gmat, js)
            /\ r.mat = MkzUpdateNParallel(gmat, js, Len(js))

\* a batch has run after a change of the matrix, and a further batch that
\* names a column twice and then another column would change the queue
C15_Witness ==
    /\ last.op = "MkzUpdateN"
    /\ \E c \in Cols : ~MkzIsAlive(gmat.MKZA, c)
    /\ \E js \in BatchLists(Alive(gmat)) :
          /\ Len(js) = MaxBatch
          /\ \E a, b \in 1 .. Len(js) : a # b /\ js[a] = js[b]
          /\ MkzUpdateN(gmat, js, Len(js)).mat # gmat

\* C16: the weight tracker does not touch the queue. MkzIncrCol(j) and
\* MkzDecreaseColWeight(j) change the weight of column j and nothing else: Q,
\* A, the other weights and the row lists are as before, so the stored cost
\* of j keeps its old value until MkzUpdate(j).
C16_OnlyWeightOf(before, after, j) ==
    /\ after = [before EXCEPT !.wt[j] = after.wt[j]]
    /\ after.MKZQ = before.MKZQ /\ after.MKZA = before.MKZA
    /\ after.rows = before.rows /\ after.R = before.R
    /\ \A c \in DOMAIN before.wt : c # j => after.wt[c] = before.wt[c]
    /\ MkzIsAlive(before.MKZA, j) => StoredCost(after, j) = StoredCost(before, j)

C16_TrackerFrame ==
    \A j \in Cols :
        /\ C16_OnlyWeightOf(gmat, MkzIncrCol(gmat, j).mat, j)
        /\ MkzIncrCol(gmat, j).mat.wt[j] # gmat.wt[j]
        /\ gmat.wt[j] > 0 =>
              /\ C16_OnlyWeightOf(gmat, MkzDecreaseColWeight(gmat, j), j)
              /\ MkzDecreaseColWeight(gmat, j).wt[j] # gmat.wt[j]

\* a weight has just been raised and the column's stored cost is still the
\* old one
C16_Witness ==
    /\ last.op = "MkzIncrCol"
    /\ \E c \in Alive(gmat) : ~IsFresh(gmat, c) /\ StoredCost(gmat, c) < FreshCost(gmat, c)

\* C18: column weights never go negative. Along every run in which each
\* decrement is applied to a column of weight > 0, every weight is >= 0, and
\* a decrement lowers the weight of its column by exactly 1.
C18_WeightsNonNegative ==
    \A j \in Cols :
        /\ gmat.wt[j] >= 0
        /\ gmat.wt[j] = Len(gmat.R[j])
        /\ gmat.wt[j] > 0 =>
              /\ MkzDecreaseColWeight(gmat, j).wt[j] = gmat.wt[j] - 1
              /\ MkzDecreaseColWeight(gmat, j).wt[j] >= 0

\* a column has just lost an entry and is left with weight 1
C18_Witness ==
    /\ last.op = "MkzDecreaseColWeight"
    /\ \E j \in Cols : gmat.wt[j] = 1 /\ j \notin gmat.rows[0] /\ nops = 1

\* C19: teardown diagnostic. The value MkzClear prints as "Max Markowitz
\* count" when verbose is set is the largest cost seen at the root of the
\* queue during the run.
C19_PrintsMaxRootCost ==
    (diag.freed /\ Len(diag.out) = 1) => diag.out[1] = diag.rootmax

\* C20: unsynchronised heap repair is unsafe. When the repairs of two
\* columns are serialized, the queue they leave is heap ordered, A and Q are
\* mutually inverse, and it is the queue the sequential pass leaves for one
\* of the two orders; when their reads and writes interleave, a final state
\* without the heap property or without the bijection is reachable (the
\* witness).
C20_BothDone == par.proc[1].pc = "done" /\ par.proc[2].pc = "done"

C20_Sequential(c1, c2) == MkzUpdateNParallel(par.start, <<c1, c2>>, 2)

C20_SerializedRepairsSafe ==
    (par.locked /\ C20_BothDone) =>
        /\ HeapOrdered(gmat) /\ Bijective(gmat)
        /\ \/ gmat = C20_Sequential(par.proc[1].col, par.proc[2].col)
           \/ gmat = C20_Sequential(par.proc[2].col, par.proc[1].col)

\* two interleaved repairs have ended and left a queue that is not heap
\* ordered or whose A and Q are not mutually inverse
C20_Witness ==
    /\ ~par.locked /\ C20_BothDone
    /\ ~(HeapOrdered(gmat) /\ Bijective(gmat))

\* C21: sift-up. MkzUpQueue on the element (dj, c) at slot k moves it to the
\* first slot kf on the way k, k/2, k/4, ... that is the root or whose father
\* costs less than c: every father passed costs >= c and has come down one
\* level, the other slots are as they were, and A follows. Checked for every
\* slot k of every reachable queue and every cost c of SiftCosts.
SiftCosts == 0 .. 5
SiftDepth == 0 .. 3
Ancestor(k, d) == k \div (2 ^ d)

\* the queue with the cost of slot k replaced by c
WithCost(mat, k, c) == MkzSet(mat.MKZQ, k, 1, c)

\* MkzUpQueue has taken the element of slot k of Q to slot kf, d levels up
MovedUp(Q, A, r, k, d) ==
    LET kf == Ancestor(k, d)
        dj == MkzGet(Q, k, 0)
    IN  /\ MkzGet(r.Q, kf, 0) = dj /\ MkzGet(r.Q, kf, 1) = MkzGet(Q, k, 1)
        /\ r.A[dj] = kf
        /\ \A e \in 0 .. (d - 1) :
              /\ MkzGet(r.Q, Ancestor(k, e), 0) = MkzGet(Q, Ancestor(k, e + 1), 0)
              /\ MkzGet(r.Q, Ancestor(k, e), 1) = MkzGet(Q, Ancestor(k, e + 1), 1)
              /\ r.A[MkzGet(Q, Ancestor(k, e + 1), 0)] = Ancestor(k, e)
        /\ \A m \in 1 .. Q[0] :
              m \notin {Ancestor(k, e) : e \in 0 .. d} =>
                  /\ MkzGet(r.Q, m, 0) = MkzGet(Q, m, 0)
                  /\ MkzGet(r.Q, m, 1) = MkzGet(Q, m, 1)
                  /\ r.A[MkzGet(Q, m, 0)] = A[MkzGet(Q, m, 0)]
        /\ r.Q[0] = Q[0]

C21_SiftUpWhileFatherNotSmaller ==
    ~aborted =>
        \A k \in 1 .. Count(gmat), c \in SiftCosts :
            LET Q == WithCost(gmat, k, c)
                r == MkzUpQueue(Q, gmat.MKZA, k)
            IN  \E d \in SiftDepth :
                    /\ Ancestor(k, d) >= 1
                    /\ \A e \in 0 .. (d - 1) : MkzGet(Q, Ancestor(k, e + 1), 1) >= c
                    /\ Ancestor(k, d) = 1 \/ MkzGet(Q, Ancestor(k, d + 1), 1) < c
                    /\ MovedUp(Q, gmat.MKZA, r, k, d)

\* C21 as stated: the element goes up while its own cost is >= its father's
C21_SiftUpWhileCostNotSmaller ==
    ~aborted =>
        \A k \in 1 .. Count(gmat), c \in SiftCosts :
            LET Q == WithCost(gmat, k, c)
                r == MkzUpQueue(Q, gmat.MKZA, k)
            IN  \E d \in SiftDepth :
                    /\ Ancestor(k, d) >= 1
                    /\ \A e \in 0 .. (d - 1) : c >= MkzGet(Q, Ancestor(k, e + 1), 1)
                    /\ Ancestor(k, d) = 1 \/ c < MkzGet(Q, Ancestor(k, d + 1), 1)
                    /\ MovedUp(Q, gmat.MKZA, r, k, d)

\* an update has sent a column up, and in the queue reached some sift-up
\* stops at an inner slot while another one reaches the root from the last
\* level
C21_Witness ==
    /\ last.op = "MkzUpdate" /\ last.dir = "up"
    /\ Count(gmat) >= 4
    /\ \E c \in SiftCosts :
          MkzUpQueue(WithCost(gmat, 4, c), gmat.MKZA, 4).A[ColAt(gmat, 4)] = 2
    /\ \E c \in SiftCosts :
          MkzUpQueue(WithCost(gmat, 4, c), gmat.MKZA, 4).A[ColAt(gmat, 4)] = 1

\* C22: sift-down. MkzDownQueue on the element (dj, c) at slot k follows the
\* cheaper son of each slot (the left one when both cost the same) and goes
\* down to it only while c is strictly larger than that son's cost; it stops
\* at a slot without sons or whose cheaper son costs >= c, so that on exit c
\* is <= the cost of each son; the sons passed have come up one level, the
\* other slots are as they were, and A follows.
Children(Q, m) == {s \in {2 * m, 2 * m + 1} : s <= Q[0]}

SmallerChild(Q, m) ==
    CHOOSE s \in Children(Q, m) :
        \A u \in Children(Q, m) :
            \/ MkzGet(Q, s, 1) < MkzGet(Q, u, 1)
            \/ MkzGet(Q, s, 1) = MkzGet(Q, u, 1) /\ s <= u

\* the slot d levels below k on the way of the cheaper sons; 0 where the way
\* has ended
RECURSIVE Descendant(_, _, _)
Descendant(Q, k, d) ==
    IF d = 0 THEN k
    ELSE LET m == Descendant(Q, k, d - 1)
         IN  IF m = 0 \/ Children(Q, m) = {} THEN 0 ELSE SmallerChild(Q, m)

MovedDown(Q, A, r, k, d) ==
    LET kf == Descendant(Q, k, d)
        dj == MkzGet(Q, k, 0)
        way == {Descendant(Q, k, e) : e \in 0 .. d}
    IN  /\ MkzGet(r.Q, kf, 0) = dj /\ MkzGet(r.Q, kf, 1) = MkzGet(Q, k, 1)
        /\ r.A[dj] = kf
        /\ \A e \in 0 .. (d - 1) :
              /\ MkzGet(r.Q, Descendant(Q, k, e), 0) = MkzGet(Q, Descendant(Q, k, e + 1), 0)
              /\ MkzGet(r.Q, Descendant(Q, k, e), 1) = MkzGet(Q, Descendant(Q, k, e + 1), 1)
              /\ r.A[MkzGet(Q, Descendant(Q, k, e + 1), 0)] = Descendant(Q, k, e)
        /\ \A m \in 1 .. Q[0] :
              m \notin way =>
                  /\ MkzGet(r.Q, m, 0) = MkzGet(Q, m, 0)
                  /\ MkzGet(r.Q, m, 1) = MkzGet(Q, m, 1)
                  /\ r.A[MkzGet(Q, m, 0)] = A[MkzGet(Q, m, 0)]
        /\ r.Q[0] = Q[0]

C22_SiftDownToCheaperSon ==
    ~aborted =>
        \A k \in 1 .. Count(gmat), c \in SiftCosts :
            LET Q == WithCost(gmat, k, c)
                r == MkzDownQueue(Q, gmat.MKZA, k)
            IN  \E d \in SiftDepth :
                    LET kf == Descendant(Q, k, d)
                    IN  /\ kf >= 1
                        /\ \A e \in 0 .. (d - 1) :
                              c > MkzGet(Q, Descendant(Q, k, e + 1), 1)
                        /\ \/ Children(Q, kf) = {}
                           \/ c <= MkzGet(Q, SmallerChild(Q, kf), 1)
                        /\ MovedDown(Q, gmat.MKZA, r, k, d)
                        /\ \A s \in Children(r.Q, kf) : c <= MkzGet(r.Q, s, 1)

\* an update has sent a column down, and in the queue reached the two sons
\* of the root cost the same: a dearer root goes to the left one
C22_Witness ==
    /\ last.op = "MkzUpdate" /\ last.dir = "down"
    /\ Count(gmat) >= 3
    /\ CostAt(gmat, 2) = CostAt(gmat, 3)
    /\ LET Q == WithCost(gmat, 1, CostAt(gmat, 2) + 1)
       IN  MkzDownQueue(Q, gmat.MKZA, 1).A[ColAt(gmat, 1)] \in {2, 4, 5}

\* C23: one direction per update. MkzUpdate(j) takes column j from its slot
\* k0 to a slot above exactly when k0 is not the root and the new cost is
\* strictly smaller than the cost of the father of k0; it then ends on an
\* ancestor of k0. Otherwise it ends on k0 or on a descendant of k0. Only the
\* slots between k0 and the end slot change, and the queue is heap ordered
\* afterwards.
C23_Between(k0, kf) ==
    IF kf <= k0 THEN {Ancestor(k0, d) : d \in {e \in SiftDepth : Ancestor(k0, e) >= kf}}
    ELSE {Ancestor(kf, d) : d \in {e \in SiftDepth : Ancestor(kf, e) >= k0}}

C23_OneDirection ==
    ~aborted =>
        \A j \in Alive(gmat) :
            LET k0 == gmat.MKZA[j]
                c == MkzCount(gmat, j)
                r == MkzUpdate(gmat, j).mat
                kf == r.MKZA[j]
                goesUp == k0 > 1 /\ c < CostAt(gmat, k0 \div 2)
            IN  /\ (kf < k0) <=> goesUp
                /\ goesUp => \E d \in SiftDepth \ {0} : kf = Ancestor(k0, d)
                /\ ~goesUp => \E d \in SiftDepth : k0 = Ancestor(kf, d)
                /\ \A m \in 1 .. Count(gmat) :
                      m \notin C23_Between(k0, kf) =>
                          ColAt(r, m) = ColAt(gmat, m) /\ CostAt(r, m) = CostAt(gmat, m)
                /\ HeapOrdered(r)
                /\ StoredCost(r, j) = c

\* the last update went up, and of the columns now in the queue one would
\* go down if updated
C23_Witness ==
    /\ last.op = "MkzUpdate" /\ last.dir = "up"
    /\ \E j \in Alive(gmat) : MkzUpdate(gmat, j).mat.MKZA[j] > gmat.MKZA[j]

\* C24: ties are promoted on the way up. When MkzUpdate(j) takes column j to
\* a slot above, that slot is the root or its father costs strictly less than
\* j: no ancestor of the end slot has the cost of j, and every ancestor of
\* the start slot that had this cost is now below j.
C24_AncestorsOf(k) == {Ancestor(k, d) : d \in SiftDepth \ {0}} \ {0}

C24_TiePromotion ==
    ~aborted =>
        \A j \in Alive(gmat) :
            LET k0 == gmat.MKZA[j]
                c == MkzCount(gmat, j)
                r == MkzUpdate(gmat, j).mat
                kf == r.MKZA[j]
            IN  kf < k0 =>
                    /\ kf = 1 \/ CostAt(r, kf \div 2) < c
                    /\ \A m \in C24_AncestorsOf(kf) : CostAt(r, m) < c
                    /\ \A m \in C24_AncestorsOf(k0) :
                          CostAt(gmat, m) = c => r.MKZA[ColAt(gmat, m)] > m

\* the last update went up, and a column of the queue reached would, if
\* updated, go up past an ancestor of its own new cost
C24_Witness ==
    /\ last.op = "MkzUpdate" /\ last.dir = "up"
    /\ \E j \in Alive(gmat) :
          /\ MkzUpdate(gmat, j).mat.MKZA[j] < gmat.MKZA[j]
          /\ \E m \in C24_AncestorsOf(gmat.MKZA[j]) : CostAt(gmat, m) = MkzCount(gmat, j)

\* C25: the frame of MkzUpdate. MkzUpdate(j) on an alive column leaves Q[0],
\* the set of columns held by the slots 1..Q[0], the stored cost of every
\* column other than j, the alive or dead status of every column and the
\* matrix (weights, rows, row lists of the columns, policy) as they were; on
\* a dead column it stops at the assertion with nothing written.
C25_ColumnsIn(mat) == {ColAt(mat, k) : k \in 1 .. Count(mat)}

C25_UpdateFrame ==
    ~aborted =>
        \A j \in DOMAIN gmat.MKZA :
            LET u == MkzUpdate(gmat, j)
                r == u.mat
            IN  IF MkzIsAlive(gmat.MKZA, j)
                THEN /\ ~u.aborted
                     /\ Count(r) = Count(gmat)
                     /\ C25_ColumnsIn(r) = C25_ColumnsIn(gmat)
                     /\ \A c \in Alive(gmat) \ {j} : StoredCost(r, c) = StoredCost(gmat, c)
                     /\ Alive(r) = Alive(gmat)
                     /\ r.wt = gmat.wt /\ r.rows = gmat.rows /\ r.R = gmat.R
                     /\ r.mkztype = gmat.mkztype /\ r.wmstmax = gmat.wmstmax
                ELSE u.aborted /\ r = gmat

\* an update has moved a column while another column is dead
C25_Witness ==
    /\ last.op = "MkzUpdate" /\ last.dir \in {"up", "down"}
    /\ Alive(gmat) # DOMAIN gmat.MKZA
    /\ Count(gmat) >= 3

\* C26: fresh costs under the driver protocol. Under the Cavallar policy the
\* stored cost of every alive column is the cost computed from the current
\* matrix. Under every policy a step of the driver leaves the updated column
\* with the cost computed from the new matrix, and leaves fresh every fresh
\* column that has no entry, before or after, in the row that changed.
C26_ChangedRows == {i \in DOMAIN gmat.rows : gmat.rows[i] # gmat'.rows[i]}
C26_Touched == UNION {gmat.rows[i] \cup gmat'.rows[i] : i \in C26_ChangedRows}
C26_Updated == {c \in DOMAIN gmat.wt : gmat.wt[c] # gmat'.wt[c]}

C26_FreshStep ==
    /\ \A c \in C26_Updated \cap Alive(gmat') : IsFresh(gmat', c)
    /\ \A c \in Alive(gmat') \ C26_Touched : IsFresh(gmat, c) => IsFresh(gmat', c)

C26_FreshWhereUntouched ==
    /\ [](IsPolicy(gmat, "MKZTYPE_CAVALLAR") => \A c \in Alive(gmat) : IsFresh(gmat, c))
    /\ [][C26_FreshStep]_vars

\* C26 as stated: every alive column is fresh, under each policy
C26_AllFresh == \A c \in Alive(gmat) : IsFresh(gmat, c)

\* under the pure policy, after a driver step with its update, the updated
\* column is fresh and a column of the changed row is not
C26_Witness ==
    /\ IsPolicy(gmat, "MKZTYPE_PURE") /\ last.op = "MkzUpdate"
    /\ \E c \in Alive(gmat) \cap gmat.rows[0] : ~IsFresh(gmat, c)
    /\ \E c \in Alive(gmat) : IsFresh(gmat, c) /\ gmat.wt[c] = NRows - 1

\* C27: no wrap-around in the pure cost. For every weight w >= 3 and least
\* row length w0, MkzCount under the pure policy is max(0, (w0-2)*(w-2)-2)
\* taken over the integers, and a larger w0 or a larger w never gives a
\* smaller cost.
C27_IsExact(cost, a, b) ==
    IF a <= 0 THEN cost = 0
    ELSE IF a <= 2147483647 \div b
    THEN cost = (IF a * b - 2 < 0 THEN 0 ELSE a * b - 2)
    ELSE (a - 1) <= 2147483647 \div b /\ (a - 1) * b = cost - (b - 2)

C27_NoWrapAround ==
    last.op = "MkzCount" =>
        /\ C27_IsExact(last.cost, last.w0 - 2, last.w - 2)
        /\ \A w \in WidthWeights, w0 \in WidthLengths :
              (last.w <= w /\ last.w0 <= w0) =>
                  last.cost <= MkzNonNegative(pureMkzReturn(w0, w))

\* C28: sifts terminate. Every repair begun ends; while it runs its slot k
\* stays within 1..Q[0] and changes only by MkzAssign, one level at a time
\* and always in the direction taken at the start, so that the element moves
\* at most floor(log2(Q[0])) levels. The same bound holds for MkzUpQueue and
\* MkzDownQueue from every slot and with every cost of SiftCosts.
RECURSIVE Log2(_)
Log2(n) == IF n <= 1 THEN 0 ELSE 1 + Log2(n \div 2)

C28_AllDone == \A p \in ParProcs : par.proc[p].pc = "done"

C28_SlotInRange ==
    \A p \in ParProcs :
        par.proc[p].pc \notin {"adr"} => par.proc[p].k \in 1 .. Count(gmat)

C28_SequentialBound ==
    (\A p \in ParProcs : par.proc[p].pc = "adr") =>
        \A k \in 1 .. Count(gmat), c \in SiftCosts :
            LET Q == WithCost(gmat, k, c)
                dj == ColAt(gmat, k)
                up == MkzUpQueue(Q, gmat.MKZA, k).A[dj]
                down == MkzDownQueue(Q, gmat.MKZA, k).A[dj]
            IN  /\ up \in 1 .. k /\ Log2(k) - Log2(up) <= Log2(Count(gmat))
                /\ down \in k .. Count(gmat) /\ Log2(down) - Log2(k) <= Log2(Count(gmat))

C28_OneLevelPerMove ==
    \A p \in ParProcs :
        LET r == par.proc[p]
            rn == par'.proc[p]
        IN  \/ rn.k = r.k
            \/ r.pc = "adr"
            \/ /\ r.pc = "a4" /\ r.dir = "up"
               /\ rn.k = r.k \div 2 /\ Log2(rn.k) = Log2(r.k) - 1
            \/ /\ r.pc = "a4" /\ r.dir = "down"
               /\ rn.k \in {2 * r.k, 2 * r.k + 1} /\ Log2(rn.k) = Log2(r.k) + 1

C28_SiftsTerminate ==
    /\ [](C28_SlotInRange /\ C28_SequentialBound)
    /\ [][C28_OneLevelPerMove]_vars
    /\ <>C28_AllDone

\* both repairs have ended, one of them two levels away from where it began:
\* floor(log2(5)) levels
C28_Witness ==
    /\ C28_AllDone
    /\ Count(gmat) = 5
    /\ \E p \in ParProcs :
          LET c == par.proc[p].col
          IN  \/ Log2(gmat.MKZA[c]) - Log2(par.start.MKZA[c]) = Log2(Count(gmat))
              \/ Log2(par.start.MKZA[c]) - Log2(gmat.MKZA[c]) = Log2(Count(gmat))

\* C29: the debug checker agrees with the heap invariant. MkzIsHeap(Q) is 1
\* exactly when every slot k of 1..Q[0] costs no more than its sons 2k and
\* 2k+1 where these are within Q[0].
C29_IsHeapAgrees ==
    last.op = "MkzIsHeap" => (last.ret = 1 <=> HeapOrdered(gmat))

\* C30: the special-q factor range test. is_in_qfac_range(p) is true exactly
\* when qfac_min <= p <= qfac_max, for every p and every qfac_min <= qfac_max;
\* with the defaults 1024 and UINT64_MAX every p >= 1024 is in range.
C30_InRangeExactly ==
    last.op = "is_in_qfac_range" =>
        (last.ret <=> (last.qfac_min <= last.p /\ last.p <= last.qfac_max))

====
